---- MODULE Spec2Model ----
(***************************************************************************)
(* BaseTransformerBuilder (fast_transformers/builders/base.py): the three  *)
(* construction entry points from_kwargs, from_namespace, from_dictionary  *)
(* and the abstract get().                                                 *)
(*                                                                         *)
(* A builder is modelled by its instance dictionary: a function from the   *)
(* attribute names set on the instance to their values.  The members the   *)
(* class itself defines (get and the three classmethods) are found through *)
(* the class, so hasattr sees them although they are not in the instance   *)
(* dictionary; setattr on such a name stores the value on the instance,    *)
(* where it shadows the class member.                                      *)
(*                                                                         *)
(* A mapping (dict, keyword set, namespace __dict__) is a sequence of      *)
(* <<key, value>> pairs with distinct keys, in iteration order.            *)
(* Python's True and False are the integers 1 and 0.                       *)
(*                                                                         *)
(* setattr is ordinary attribute assignment: the keys of the model are     *)
(* declared parameters, members defined in base.py, or foreign names.      *)
(* Names inherited from object whose assignment Python itself rejects      *)
(* (__class__, __dict__, __weakref__) are not among them.                  *)
(***************************************************************************)
EXTENDS Integers, Sequences, FiniteSets, TLC

VARIABLES
    pc,          \* where from_dictionary is: "idle" (not called), "loop"
                 \* (lines 68-75), "returned" (line 76), "raised" (line 71)
    entry,       \* the entry point the caller used (lines 22, 34, 44)
    args,        \* the arguments the caller passed to it
    dictionary,  \* from_dictionary's dictionary (line 44)
    strict,      \* from_dictionary's strict (line 44)
    builder,     \* from_dictionary's local builder (line 67)
    i,           \* position of the for loop in dictionary.items() (line 68)
    assigned,    \* history: the keys setattr was called with (line 75)
    error,       \* <<>> or <<"ValueError", key>> (lines 71-72)
    returned,    \* <<>> or <<the builder handed to the caller>> (line 76)
    outcome,     \* what get() on the returned builder did (lines 17-19)
    prev         \* history: <<>> or <<the previous successful call>>

vars == <<pc, entry, args, dictionary, strict, builder, i, assigned, error,
          returned, outcome, prev>>

----------------------------------------------------------------------------
(* Bounds of the model. *)

MaxLen == 3

MaxRebindLen == 2

----------------------------------------------------------------------------
(* The concrete builder and the inputs. *)

\* The parameters a concrete builder declares, at their defaults: cls().
cls == [depth |-> 1, width |-> 8, strict |-> 3]

\* The members the class defines.
ClassMembers == {"get", "from_kwargs", "from_namespace", "from_dictionary"}

\* Names that are no attribute of a builder.
Foreign == {"heads", "foo"}

Values == {6, 7}

Flags == {0, 1}

InKeys == {"depth", "width", "strict", "get", "heads", "foo"}

RebindKeys == {"depth", "width", "heads"}

Keys(d) == {d[j][1] : j \in 1..Len(d)}

Lookup(d, k) == d[CHOOSE j \in 1..Len(d) : d[j][1] = k][2]

DistinctKeys(d) == \A a, b \in 1..Len(d) : a # b => d[a][1] # d[b][1]

Dicts(pairs, n) ==
    {d \in UNION {[1..m -> pairs] : m \in 0..n} : DistinctKeys(d)}

\* Mappings and namespaces: any key, any value.
InDicts == Dicts(InKeys \X Values, MaxLen)

\* Keyword sets: the key strict carries a flag.
InKwargs ==
    Dicts(((InKeys \ {"strict"}) \X Values) \cup ({"strict"} \X Flags), MaxLen)

StrictArgs == {<<>>, <<0>>, <<1>>}

RebindDicts == Dicts(RebindKeys \X Values, MaxRebindLen)

----------------------------------------------------------------------------
(* The functions of the source. *)

\* `if strict:`
Truthy(x) == x # 0

hasattr_instance_only(b, k) == k \in DOMAIN b

hasattr(b, k) == k \in DOMAIN b \/ k \in ClassMembers

setattr_dropped(b, k, v) == b

setattr_clobber(b, k, v) == [x \in {k} |-> v]

setattr(b, k, v) == [x \in DOMAIN b \cup {k} |-> IF x = k THEN v ELSE b[x]]

\* One iteration of the for loop on the frame f (lines 68-75).
LoopBody_rollback(f, d, s) ==
    LET k == d[f.i][1]
        v == d[f.i][2]
    IN  IF ~hasattr(f.builder, k)
        THEN IF Truthy(s)
             THEN [f EXCEPT !.pc = "raised", !.error = <<"ValueError", k>>,
                            !.builder = cls, !.assigned = <<>>]
             ELSE [f EXCEPT !.i = @ + 1]
        ELSE [f EXCEPT !.builder = setattr(@, k, v),
                       !.assigned = Append(@, k),
                       !.i = @ + 1]

LoopBody_lenient(f, d, s) ==
    LET k == d[f.i][1]
        v == d[f.i][2]
    IN  IF ~hasattr(f.builder, k)
        THEN [f EXCEPT !.i = @ + 1]
        ELSE [f EXCEPT !.builder = setattr(@, k, v),
                       !.assigned = Append(@, k),
                       !.i = @ + 1]

LoopBody_unchecked(f, d, s) ==
    LET k == d[f.i][1]
        v == d[f.i][2]
    IN  IF ~hasattr(f.builder, k) /\ Truthy(s)
        THEN [f EXCEPT !.pc = "raised", !.error = <<"ValueError", k>>]
        ELSE [f EXCEPT !.builder = setattr(@, k, v),
                       !.assigned = Append(@, k),
                       !.i = @ + 1]

LoopBody(f, d, s) ==
    LET k == d[f.i][1]
        v == d[f.i][2]
    IN  IF ~hasattr(f.builder, k)
        THEN IF Truthy(s)
             THEN [f EXCEPT !.pc = "raised", !.error = <<"ValueError", k>>]
             ELSE [f EXCEPT !.i = @ + 1]
        ELSE [f EXCEPT !.builder = setattr(@, k, v),
                       !.assigned = Append(@, k),
                       !.i = @ + 1]

\* `builder = cls()`: a classmethod gets the class, whatever it is called on.
NewBuilder_reuse(receiver) == IF receiver = <<>> THEN cls ELSE receiver[1]

NewBuilder(receiver) == cls

\* The frame of from_dictionary as the loop starts.
Enter(receiver) ==
    [pc |-> "loop", builder |-> NewBuilder(receiver), i |-> 1,
     assigned |-> <<>>, error |-> <<>>, returned |-> <<>>]

RECURSIVE Run(_, _, _)
Run(f, d, s) ==
    IF f.pc = "raised" THEN f
    ELSE IF f.i > Len(d) THEN [f EXCEPT !.pc = "returned",
                                        !.returned = <<f.builder>>]
    ELSE Run(LoopBody(f, d, s), d, s)

\* `strict=True` of from_dictionary's signature.
from_dictionary_strict(s) == IF s = <<>> THEN 1 ELSE s[1]

\* from_dictionary run to its end, as a function of its arguments.
from_dictionary(d, s) == Run(Enter(<<>>), d, from_dictionary_strict(s))

\* `strict=False` of from_namespace's signature.
from_namespace_strict_true(s) == IF s = <<>> THEN 1 ELSE s[1]

from_namespace_strict(s) == IF s = <<>> THEN 0 ELSE s[1]

\* vars(args): the namespace's __dict__.
py_vars(namespace) == namespace.dict

\* kwargs.pop("strict", True): the value popped and the keyword set left.
pop_value(kwargs, key, default) ==
    IF key \in Keys(kwargs) THEN Lookup(kwargs, key) ELSE default

pop_rest_kept(kwargs, key) == kwargs

pop_rest(kwargs, key) == SelectSeq(kwargs, LAMBDA e : e[1] # key)

\* builder.get(): the instance attribute, when there is one, shadows the
\* method of the class, and the value found there is not callable.
get(self) ==
    IF "get" \in DOMAIN self THEN "TypeError" ELSE "NotImplementedError"

----------------------------------------------------------------------------
(* The state machine. *)

Init ==
    /\ pc = "idle"
    /\ entry = "none"
    /\ args = <<>>
    /\ dictionary = <<>>
    /\ strict = 1
    /\ builder = cls
    /\ i = 1
    /\ assigned = <<>>
    /\ error = <<>>
    /\ returned = <<>>
    /\ outcome = ""
    /\ prev = <<>>

\* A call reaches from_dictionary with dictionary d and strict s.
Begin(e, a, d, s) ==
    LET f == Enter(returned)
    IN  /\ entry' = e
        /\ args' = a
        /\ dictionary' = d
        /\ strict' = s
        /\ pc' = f.pc
        /\ builder' = f.builder
        /\ i' = f.i
        /\ assigned' = f.assigned
        /\ error' = f.error
        /\ returned' = f.returned
        /\ outcome' = ""
        /\ prev' = IF pc = "returned"
                   THEN <<[dictionary |-> dictionary, builder |-> returned[1]]>>
                   ELSE <<>>

FromDictionary(D, S, from) ==
    /\ pc \in from
    /\ \E d \in D, s \in S :
         Begin("from_dictionary", [dictionary |-> d, strict |-> s],
               d, from_dictionary_strict(s))

FromKwargs ==
    /\ pc = "idle"
    /\ \E kwargs \in InKwargs :
         Begin("from_kwargs", [kwargs |-> kwargs],
               pop_rest(kwargs, "strict"),
               from_dictionary_strict(<<pop_value(kwargs, "strict", 1)>>))

FromNamespace ==
    /\ pc = "idle"
    /\ \E d \in InDicts, s \in StrictArgs :
         LET namespace == [dict |-> d]
         IN  Begin("from_namespace", [namespace |-> namespace, strict |-> s],
                   py_vars(namespace),
                   from_dictionary_strict(<<from_namespace_strict(s)>>))

\* cls() called directly.
Construct ==
    /\ pc = "idle"
    /\ pc' = "returned"
    /\ entry' = "cls"
    /\ returned' = <<cls>>
    /\ UNCHANGED <<args, dictionary, strict, builder, i, assigned, error,
                   outcome, prev>>

LoopStep ==
    /\ pc = "loop"
    /\ i <= Len(dictionary)
    /\ LET f == LoopBody([pc |-> pc, builder |-> builder, i |-> i,
                          assigned |-> assigned, error |-> error,
                          returned |-> returned], dictionary, strict)
       IN  /\ pc' = f.pc
           /\ builder' = f.builder
           /\ i' = f.i
           /\ assigned' = f.assigned
           /\ error' = f.error
           /\ returned' = f.returned
    /\ UNCHANGED <<entry, args, dictionary, strict, outcome, prev>>

Return ==
    /\ pc = "loop"
    /\ i > Len(dictionary)
    /\ pc' = "returned"
    /\ returned' = <<builder>>
    /\ UNCHANGED <<entry, args, dictionary, strict, builder, i, assigned,
                   error, outcome, prev>>

Get ==
    /\ pc = "returned"
    /\ outcome = ""
    /\ outcome' = get(returned[1])
    /\ UNCHANGED <<pc, entry, args, dictionary, strict, builder, i, assigned,
                   error, returned, prev>>

Next ==
    \/ FromDictionary(InDicts, StrictArgs, {"idle"})
    \/ FromKwargs
    \/ FromNamespace
    \/ Construct
    \/ LoopStep
    \/ Return
    \/ Get

Spec == Init /\ [][Next]_vars

\* Binding call after binding call, each through from_dictionary.
NextRebind ==
    \/ FromDictionary(RebindDicts, {<<0>>, <<1>>}, {"idle", "returned", "raised"})
    \/ LoopStep
    \/ Return

SpecRebind == Init /\ [][NextRebind]_vars

----------------------------------------------------------------------------
(* The properties. *)

\* What the names of a fresh builder are: its own attributes and the
\* members of its class.
FreshAttrs == DOMAIN cls \cup ClassMembers

Unknown(d) == {j \in 1..Len(d) : d[j][1] \notin FreshAttrs}

FirstUnknown(d) == CHOOSE j \in Unknown(d) : \A x \in Unknown(d) : j <= x

Terminal == pc \in {"returned", "raised"}

\* What the caller sees of a finished call.
Seen == [pc |-> pc, returned |-> returned, error |-> error]

SeenOf(f) == [pc |-> f.pc, returned |-> f.returned, error |-> f.error]

\* Every recognized key of d holds d's value on b, and no foreign key of d
\* is an attribute of b.
Applied(d, b) ==
    \A j \in 1..Len(d) :
        IF d[j][1] \in FreshAttrs
        THEN d[j][1] \in DOMAIN b /\ b[d[j][1]] = d[j][2]
        ELSE d[j][1] \notin DOMAIN b

\* C1: from_dictionary(mapping, strict=True) on a mapping whose keys are all
\* declared attributes never raises, and the builder it returns holds
\* mapping[k] at every key k of the mapping.
C1_RoundTrip ==
    (/\ entry = "from_dictionary"
     /\ args.strict = <<1>>
     /\ Keys(args.dictionary) \subseteq DOMAIN cls)
    => /\ pc # "raised"
       /\ error = <<>>
       /\ pc = "returned" =>
            \A j \in 1..Len(args.dictionary) :
                /\ args.dictionary[j][1] \in DOMAIN returned[1]
                /\ returned[1][args.dictionary[j][1]] = args.dictionary[j][2]

C1_Witness ==
    /\ entry = "from_dictionary"
    /\ args.strict = <<1>>
    /\ pc = "returned"
    /\ Keys(args.dictionary) = {"depth", "width", "strict"}
    /\ returned[1] = [depth |-> 6, width |-> 7, strict |-> 6]

\* C2: from_dictionary(mapping, strict=True) on a mapping with a key that
\* is no attribute of a fresh builder returns no builder: the loop never gets
\* past the first such key, and the ValueError it raises names that key.
C2_StrictRejects ==
    (/\ entry = "from_dictionary"
     /\ args.strict = <<1>>
     /\ Unknown(args.dictionary) # {})
    => /\ pc # "returned"
       /\ returned = <<>>
       /\ pc = "loop" => i <= FirstUnknown(args.dictionary)
       /\ pc = "raised" =>
            error = <<"ValueError",
                      args.dictionary[FirstUnknown(args.dictionary)][1]>>

C2_Witness ==
    /\ entry = "from_dictionary"
    /\ args.strict = <<1>>
    /\ pc = "raised"
    /\ Cardinality(Unknown(args.dictionary)) = 2
    /\ FirstUnknown(args.dictionary) = 2
    /\ error = <<"ValueError", "foo">>

\* C3: from_dictionary(mapping, strict=False) never raises the ValueError;
\* the builder it returns holds the mapping's value at every key that
\* matches an existing attribute and has no attribute for any other key,
\* wherever the unknown keys sit.
C3_LenientApplies ==
    (/\ entry = "from_dictionary"
     /\ args.strict = <<0>>)
    => /\ pc # "raised"
       /\ error = <<>>
       /\ pc = "returned" => Applied(args.dictionary, returned[1])

C3_Witness ==
    /\ entry = "from_dictionary"
    /\ args.strict = <<0>>
    /\ pc = "returned"
    /\ Len(args.dictionary) = 3
    /\ Unknown(args.dictionary) = {1, 3}
    /\ returned[1] # cls

\* C4: from_kwargs(**kwargs) ends as from_dictionary does on the keyword set
\* without the key strict, with strict the value of that key (True when the
\* key is absent); the key strict is never checked, never assigned, and the
\* builder's own attribute strict keeps its default.
C4_KwargsEquivalent ==
    entry = "from_kwargs" =>
        LET K == SelectSeq(args.kwargs, LAMBDA e : e[1] # "strict")
            s == IF "strict" \in Keys(args.kwargs)
                 THEN Lookup(args.kwargs, "strict") ELSE 1
        IN  /\ Terminal => Seen = SeenOf(from_dictionary(K, <<s>>))
            /\ "strict" \notin Keys(dictionary)
            /\ \A j \in 1..Len(assigned) : assigned[j] # "strict"
            /\ error # <<"ValueError", "strict">>
            /\ builder["strict"] = cls["strict"]

C4_Witness ==
    /\ entry = "from_kwargs"
    /\ pc = "returned"
    /\ Len(args.kwargs) = 3
    /\ args.kwargs[2] = <<"strict", 0>>
    /\ Keys(args.kwargs) \cap Foreign # {}
    /\ returned[1] # cls

C4_WitnessDefault ==
    /\ entry = "from_kwargs"
    /\ pc = "raised"
    /\ "strict" \notin Keys(args.kwargs)

\* C5: from_namespace(ns) on a namespace with a foreign field returns a
\* builder with the recognized fields applied and the foreign ones ignored;
\* from_namespace(ns, strict=True) on it raises the ValueError; either way
\* the call ends as from_dictionary does on the mapping of ns's fields with
\* the same strict (False when none is given).
C5_NamespaceLenientByDefault ==
    (/\ entry = "from_namespace"
     /\ Unknown(args.namespace.dict) # {})
    => /\ args.strict = <<>> =>
            /\ pc # "raised"
            /\ pc = "returned" => Applied(args.namespace.dict, returned[1])
       /\ args.strict = <<1>> =>
            /\ pc # "returned"
            /\ pc = "raised" => error[1] = "ValueError"
       /\ Terminal =>
            Seen = SeenOf(from_dictionary(
                       args.namespace.dict,
                       IF args.strict = <<>> THEN <<0>> ELSE args.strict))

C5_Witness ==
    /\ entry = "from_namespace"
    /\ args.strict = <<>>
    /\ pc = "returned"
    /\ Unknown(args.namespace.dict) = {1}
    /\ Len(args.namespace.dict) = 2
    /\ returned[1] # cls

C5_WitnessStrict ==
    /\ entry = "from_namespace"
    /\ args.strict = <<1>>
    /\ pc = "raised"
    /\ Len(assigned) = 2

\* C6: get() on a builder of a class that does not override it raises
\* NotImplementedError, however the builder was constructed, and leaves the
\* builder's attributes as they were.
C6_GetNotImplemented ==
    outcome # "" => outcome = "NotImplementedError"

\* C7, as stated: after a binding call on A and then one on B, the builder
\* holds B's value at the recognized keys of B and A's value at the
\* recognized keys only A has.
C7_Accumulates ==
    (pc = "returned" /\ entry = "from_dictionary" /\ prev # <<>>)
    => LET A == prev[1].dictionary
           B == dictionary
           b == returned[1]
       IN  \A k \in DOMAIN cls :
               /\ k \in Keys(B) => b[k] = Lookup(B, k)
               /\ k \in Keys(A) \ Keys(B) => b[k] = Lookup(A, k)

\* C7, amended: every binding call builds a fresh builder, so after a call
\* on A and then one on B the builder returned holds B's value at the
\* recognized keys of B and the declared default everywhere else, also at
\* the keys only A has; the builder the first call returned keeps A's values.
C7_FreshEachCall ==
    (pc = "returned" /\ entry = "from_dictionary" /\ prev # <<>>)
    => LET A == prev[1].dictionary
           B == dictionary
           b == returned[1]
       IN  /\ \A k \in DOMAIN cls :
                 /\ k \in Keys(B) => b[k] = Lookup(B, k)
                 /\ k \notin Keys(B) => b[k] = cls[k]
           /\ Applied(A, prev[1].builder)

C7_Witness ==
    /\ pc = "returned"
    /\ entry = "from_dictionary"
    /\ prev # <<>>
    /\ prev[1].dictionary = <<<<"depth", 6>>, <<"width", 6>>>>
    /\ dictionary = <<<<"width", 7>>>>
    /\ returned[1] = [depth |-> 1, width |-> 7, strict |-> 3]

\* C8: on the builder from_dictionary returns, every declared attribute
\* that is no key of the mapping holds its default, and the mapping is the
\* one that was passed in.
C8_Frame ==
    entry = "from_dictionary" =>
        /\ dictionary = args.dictionary
        /\ pc = "returned" =>
             \A k \in DOMAIN cls \ Keys(args.dictionary) :
                 k \in DOMAIN returned[1] /\ returned[1][k] = cls[k]

C8_Witness ==
    /\ entry = "from_dictionary"
    /\ pc = "returned"
    /\ args.dictionary = <<<<"depth", 6>>>>
    /\ returned[1] = [depth |-> 6, width |-> 8, strict |-> 3]

\* C9: in strict mode the keys are assigned one by one in iteration order;
\* when the ValueError is raised, the keys before the first unknown key,
\* and no others, have been assigned and hold the mapping's values.
C9_SequentialUntilFailure ==
    (pc \in {"loop", "raised"} /\ Truthy(strict))
    => /\ assigned = [j \in 1..(i - 1) |-> dictionary[j][1]]
       /\ pc = "raised" =>
            /\ i = FirstUnknown(dictionary)
            /\ \A j \in 1..Len(dictionary) :
                 LET k == dictionary[j][1]
                 IN  IF j < i
                     THEN k \in DOMAIN builder /\ builder[k] = dictionary[j][2]
                     ELSE IF k \in DOMAIN cls
                          THEN builder[k] = cls[k]
                          ELSE k \notin DOMAIN builder

C9_Witness ==
    /\ pc = "raised"
    /\ Truthy(strict)
    /\ i = 2
    /\ Len(dictionary) = 3
    /\ dictionary[3][1] \in DOMAIN cls
    /\ assigned = <<"depth">>
    /\ builder["depth"] = 7

====
